---- MODULE Spec2Model ----
(***************************************************************************)
(* Model of the payment ledger: Amount (domain/src/amount.rs), Account     *)
(* (domain/src/account.rs), the Transaction state machine                  *)
(* (domain/src/transaction.rs) and the TransactionProcessor                *)
(* (engine/src/processor.rs).                                              *)
(*                                                                         *)
(* An Amount is modelled by the integer number of 10^-MAX_DECIMAL_PLACES   *)
(* units it holds.  A HashMap is a function whose DOMAIN is its key set.   *)
(***************************************************************************)
EXTENDS Integers, Sequences, FiniteSets, TLC

\* ------------------------------------------------------------------ bounds
NumClients == 2
MaxTxId == 2
MaxAmount == 2
MaxRecords == 4
MaxExtra == 1

\* ------------------------------------------------------- program constants
MAX_DECIMAL_PLACES == 4

Clients == 1..NumClients
TxIds == 1..MaxTxId
Amounts == 0..MaxAmount

VARIABLES
    accounts,        \* TransactionProcessor.accounts: ClientId -> (Account, history)
    global_tx_ids,   \* TransactionProcessor.global_tx_ids
    last,            \* the record handed to handle_transaction by the last step
    result,          \* what handle_transaction returned for it
    pos,             \* number of records taken from the record source so far
    stream,          \* process_transactions: the parsed input stream
    handled,         \* process_transactions: the calls made to error_handler
    snapshot,        \* process_transactions: the returned Vec<Account>
    pc,              \* process_transactions: "run" in the loop, "done" once returned
    txn,             \* a Transaction value on which change_state is exercised
    txn_result,      \* the outcome of the last set_* call on txn
    tasks,           \* concurrent callers of handle_transaction: position and locals
    locks,           \* owner of the Mutex of accounts and of global_tx_ids (0: free)
    operands,        \* Amounts on which checked_sub_assign and add_assign are exercised
    row,             \* a CSV row on its way to becoming a Transaction
    stdout           \* main: what write_accounts has written to standard output

vars == <<accounts, global_tx_ids, last, result, pos, stream, handled, snapshot, pc,
          txn, txn_result, tasks, locks, operands, row, stdout>>

\* ------------------------------------------------------------------ Amount
Amount_default == 0

Amount_add_assign(self, rhs) == self + rhs


\* Faulty variant: the subtraction is made without the comparison.
Amount_checked_sub_assign_unchecked(self, rhs) ==
    [value |-> self - rhs, res |-> "Ok", err |-> <<>>]

\* Faulty variant: equal operands are refused too.
Amount_checked_sub_assign_strict(self, rhs) ==
    IF self > rhs
    THEN [value |-> self - rhs, res |-> "Ok", err |-> <<>>]
    ELSE [value |-> self, res |-> "SubtractToNegative", err |-> <<self, rhs>>]

\* The new value of self, Ok or SubtractToNegative, and the operands the
\* error carries.
Amount_checked_sub_assign(self, rhs) ==
    IF self >= rhs
    THEN [value |-> self - rhs, res |-> "Ok", err |-> <<>>]
    ELSE [value |-> self, res |-> "SubtractToNegative", err |-> <<self, rhs>>]

\* ------------------------------------------------------------- Transaction
NoTx == [type |-> "None"]

Transaction_deposit(id, amount, client) ==
    [type |-> "Deposit", id |-> id, amount |-> amount, client_id |-> client,
     state |-> "Okay"]

Transaction_withdrawal(id, amount, client) ==
    [type |-> "Withdrawal", id |-> id, amount |-> amount, client_id |-> client,
     state |-> "Okay"]

Transaction_dispute(id, client) == [type |-> "Dispute", id |-> id, client |-> client]

Transaction_resolve(id, client) == [type |-> "Resolve", id |-> id, client |-> client]

Transaction_chargeback(id, client) ==
    [type |-> "Chargeback", id |-> id, client |-> client]

HoldsFunds(tx) == tx.type \in {"Deposit", "Withdrawal"}

Transaction_id(tx) == tx.id

Transaction_amount(tx) ==
    IF HoldsFunds(tx) THEN [some |-> TRUE, value |-> tx.amount]
    ELSE [some |-> FALSE, value |-> 0]

Transaction_client_id(tx) == IF HoldsFunds(tx) THEN tx.client_id ELSE tx.client

TxOk == [kind |-> "Ok", tx |-> NoTx]

TxErr(kind, tx) == [kind |-> kind, tx |-> tx]


\* Faulty variant: a chargeback is also accepted on a transaction that is Okay.
Transaction_change_state_direct(self, transaction_state) ==
    IF HoldsFunds(self)
    THEN IF \/ self.state = "Okay" /\ transaction_state = "Disputed"
            \/ self.state = "Disputed" /\ transaction_state = "Okay"
            \/ self.state = "Disputed" /\ transaction_state = "ChargedBack"
            \/ self.state = "Okay" /\ transaction_state = "ChargedBack"
         THEN [tx |-> [self EXCEPT !.state = transaction_state], result |-> TxOk]
         ELSE [tx |-> self, result |-> TxErr("IllegalStateChange", self)]
    ELSE [tx |-> self, result |-> TxErr("InvalidTransactionId", self)]

\* Faulty variant: a command transaction is answered like a disallowed transition.
Transaction_change_state_uniform(self, transaction_state) ==
    IF HoldsFunds(self)
    THEN IF \/ self.state = "Okay" /\ transaction_state = "Disputed"
            \/ self.state = "Disputed" /\ transaction_state = "Okay"
            \/ self.state = "Disputed" /\ transaction_state = "ChargedBack"
         THEN [tx |-> [self EXCEPT !.state = transaction_state], result |-> TxOk]
         ELSE [tx |-> self, result |-> TxErr("IllegalStateChange", self)]
    ELSE [tx |-> self, result |-> TxErr("IllegalStateChange", self)]

Transaction_change_state(self, transaction_state) ==
    IF HoldsFunds(self)
    THEN IF \/ self.state = "Okay" /\ transaction_state = "Disputed"
            \/ self.state = "Disputed" /\ transaction_state = "Okay"
            \/ self.state = "Disputed" /\ transaction_state = "ChargedBack"
         THEN [tx |-> [self EXCEPT !.state = transaction_state], result |-> TxOk]
         ELSE [tx |-> self, result |-> TxErr("IllegalStateChange", self)]
    ELSE [tx |-> self, result |-> TxErr("InvalidTransactionId", self)]

Transaction_set_disputed(self) == Transaction_change_state(self, "Disputed")

Transaction_set_resolved(self) == Transaction_change_state(self, "Okay")

Transaction_set_chargeback(self) == Transaction_change_state(self, "ChargedBack")

\* impl From<(AccountError, Transaction)> for TransactionError
TransactionError_from(err, tx) ==
    IF err = "InsufficientFunds" THEN TxErr("InsufficientFunds", tx)
    ELSE TxErr("AccountFrozen", tx)

\* ----------------------------------------------------------------- Account
\* impl From<AmountError> for AccountError
AccountError_from(res) == IF res = "Ok" THEN "Ok" ELSE "InsufficientFunds"

Account_new(client_id, available, held, locked) ==
    [client_id |-> client_id, available |-> available, held |-> held,
     total |-> Amount_add_assign(available, held), locked |-> locked]


\* Faulty variant: a deposit does not look at the lock.
Account_deposit_unlocked(self, amount) ==
    [account |-> [self EXCEPT !.available = Amount_add_assign(@, amount)], res |-> "Ok"]

Account_deposit(self, amount) ==
    IF self.locked
    THEN [account |-> self, res |-> "AccountLocked"]
    ELSE [account |-> [self EXCEPT !.available = Amount_add_assign(@, amount)],
          res |-> "Ok"]


\* Faulty variant: the funds are checked before the lock.
Account_withdraw_funds_first(self, amount) ==
    LET s == Amount_checked_sub_assign(self.available, amount)
    IN  IF s.res # "Ok" THEN [account |-> self, res |-> AccountError_from(s.res)]
        ELSE IF self.locked THEN [account |-> self, res |-> "AccountLocked"]
        ELSE [account |-> [self EXCEPT !.available = s.value], res |-> "Ok"]

Account_withdraw(self, amount) ==
    IF self.locked
    THEN [account |-> self, res |-> "AccountLocked"]
    ELSE LET s == Amount_checked_sub_assign(self.available, amount)
         IN  [account |-> [self EXCEPT !.available = s.value],
              res |-> AccountError_from(s.res)]

Account_hold(self, amount) ==
    IF self.locked
    THEN [account |-> self, res |-> "AccountLocked"]
    ELSE LET h == Amount_add_assign(self.held, amount)
             s == Amount_checked_sub_assign(self.available, amount)
         IN  [account |-> [self EXCEPT !.held = h, !.available = s.value],
              res |-> AccountError_from(s.res)]


\* Faulty variant: the released amount leaves held but is not returned to available.
Account_release_lost(self, amount) ==
    IF self.locked
    THEN [account |-> self, res |-> "AccountLocked"]
    ELSE LET s == Amount_checked_sub_assign(self.held, amount)
         IN  IF s.res = "Ok"
             THEN [account |-> [self EXCEPT !.held = s.value], res |-> "Ok"]
             ELSE [account |-> self, res |-> AccountError_from(s.res)]

Account_release(self, amount) ==
    IF self.locked
    THEN [account |-> self, res |-> "AccountLocked"]
    ELSE LET s == Amount_checked_sub_assign(self.held, amount)
         IN  IF s.res = "Ok"
             THEN [account |-> [self EXCEPT !.held = s.value,
                                            !.available = Amount_add_assign(@, amount)],
                   res |-> "Ok"]
             ELSE [account |-> self, res |-> AccountError_from(s.res)]


\* Faulty variant: a chargeback returns the amount to available, as a release does.
Account_chargeback_refund(self, amount) ==
    IF self.locked
    THEN [account |-> self, res |-> "AccountLocked"]
    ELSE LET s == Amount_checked_sub_assign(self.held, amount)
         IN  IF s.res = "Ok"
             THEN [account |-> [self EXCEPT !.held = s.value,
                                            !.available = Amount_add_assign(@, amount),
                                            !.locked = TRUE],
                   res |-> "Ok"]
             ELSE [account |-> self, res |-> AccountError_from(s.res)]

Account_chargeback(self, amount) ==
    IF self.locked
    THEN [account |-> self, res |-> "AccountLocked"]
    ELSE LET s == Amount_checked_sub_assign(self.held, amount)
         IN  IF s.res = "Ok"
             THEN [account |-> [self EXCEPT !.held = s.value, !.locked = TRUE],
                   res |-> "Ok"]
             ELSE [account |-> self, res |-> AccountError_from(s.res)]

Account_total(self) ==
    Amount_add_assign(Amount_add_assign(Amount_default, self.available), self.held)

\* ---------------------------------------------------- TransactionProcessor
EmptyMap == [k \in {} |-> NoTx]

MapInsert(m, k, v) == [x \in DOMAIN m \cup {k} |-> IF x = k THEN v ELSE m[x]]

MapRemove(m, k) == [x \in DOMAIN m \ {k} |-> m[x]]

\* The outcome of one match arm of handle_transaction on the entry
\* (account, account_txs) of the record's client.
Arm(account, account_txs, gids, res) ==
    [account |-> account, account_txs |-> account_txs, global_tx_ids |-> gids,
     result |-> res]


\* Faulty variant: the duplicate check consults the account's own history only.
DepositArm_local_ids(account, account_txs, gids, tx) ==
    IF tx.id \in DOMAIN account_txs
    THEN Arm(account, account_txs, gids, TxErr("DuplicateGlobalTransactionId", tx))
    ELSE LET r == Account_deposit(account, tx.amount)
         IN  IF r.res # "Ok"
             THEN Arm(r.account, account_txs, gids, TransactionError_from(r.res, tx))
             ELSE Arm(r.account, MapInsert(account_txs, Transaction_id(tx), tx),
                      gids \cup {Transaction_id(tx)}, TxOk)

\* Faulty variant: the deposit is stored in the history but its id is not registered.
DepositArm_unregistered(account, account_txs, gids, tx) ==
    IF tx.id \in gids
    THEN Arm(account, account_txs, gids, TxErr("DuplicateGlobalTransactionId", tx))
    ELSE LET r == Account_deposit(account, tx.amount)
         IN  IF r.res # "Ok"
             THEN Arm(r.account, account_txs, gids, TransactionError_from(r.res, tx))
             ELSE Arm(r.account, MapInsert(account_txs, Transaction_id(tx), tx), gids, TxOk)

DepositArm(account, account_txs, gids, tx) ==
    IF tx.id \in gids
    THEN Arm(account, account_txs, gids, TxErr("DuplicateGlobalTransactionId", tx))
    ELSE LET r == Account_deposit(account, tx.amount)
         IN  IF r.res # "Ok"
             THEN Arm(r.account, account_txs, gids, TransactionError_from(r.res, tx))
             ELSE Arm(r.account, MapInsert(account_txs, Transaction_id(tx), tx),
                      gids \cup {Transaction_id(tx)}, TxOk)


\* Faulty variant: the id is registered before the withdrawal is attempted.
WithdrawalArm_register_first(account, account_txs, gids, tx) ==
    IF tx.id \in gids
    THEN Arm(account, account_txs, gids, TxErr("DuplicateGlobalTransactionId", tx))
    ELSE LET r == Account_withdraw(account, tx.amount)
         IN  IF r.res # "Ok"
             THEN Arm(r.account, account_txs, gids \cup {Transaction_id(tx)},
                      TransactionError_from(r.res, tx))
             ELSE Arm(r.account, MapInsert(account_txs, Transaction_id(tx), tx),
                      gids \cup {Transaction_id(tx)}, TxOk)

\* Faulty variant: the account is asked first, the registry afterwards.
WithdrawalArm_withdraw_first(account, account_txs, gids, tx) ==
    LET r == Account_withdraw(account, tx.amount)
    IN  IF r.res # "Ok"
        THEN Arm(account, account_txs, gids, TransactionError_from(r.res, tx))
        ELSE IF tx.id \in gids
        THEN Arm(account, account_txs, gids, TxErr("DuplicateGlobalTransactionId", tx))
        ELSE Arm(r.account, MapInsert(account_txs, Transaction_id(tx), tx),
                 gids \cup {Transaction_id(tx)}, TxOk)

WithdrawalArm(account, account_txs, gids, tx) ==
    IF tx.id \in gids
    THEN Arm(account, account_txs, gids, TxErr("DuplicateGlobalTransactionId", tx))
    ELSE LET r == Account_withdraw(account, tx.amount)
         IN  IF r.res # "Ok"
             THEN Arm(r.account, account_txs, gids, TransactionError_from(r.res, tx))
             ELSE Arm(r.account, MapInsert(account_txs, Transaction_id(tx), tx),
                      gids \cup {Transaction_id(tx)}, TxOk)

DisputeArm(account, account_txs, gids, tx) ==
    IF tx.id \notin DOMAIN account_txs
    THEN Arm(account, account_txs, gids, TxErr("TransactionNotFound", tx))
    ELSE LET stored == account_txs[tx.id]
             amount == Transaction_amount(stored)
         IN  IF ~amount.some
             THEN Arm(account, account_txs, gids, TxErr("InvalidTransactionId", stored))
             ELSE LET r == Account_hold(account, amount.value)
                      s == Transaction_set_disputed(stored)
                  IN  IF r.res # "Ok"
                      THEN Arm(r.account, account_txs, gids,
                               TransactionError_from(r.res, stored))
                      ELSE IF s.result.kind # "Ok"
                      THEN Arm(r.account, account_txs, gids, s.result)
                      ELSE Arm(r.account, MapInsert(account_txs, tx.id, s.tx), gids, TxOk)


\* Faulty variant: the referenced id is looked up in the global registry; an id that
\* is registered but not in this account's history is reported as a wrong
\* reference.
ResolveArm_global_lookup(account, account_txs, gids, tx) ==
    IF tx.id \notin gids
    THEN Arm(account, account_txs, gids, TxErr("TransactionNotFound", tx))
    ELSE IF tx.id \notin DOMAIN account_txs
    THEN Arm(account, account_txs, gids, TxErr("InvalidTransactionId", tx))
    ELSE LET stored == account_txs[tx.id]
             r == Account_release(account, stored.amount)
             s == Transaction_set_resolved(stored)
         IN  IF r.res # "Ok"
             THEN Arm(r.account, account_txs, gids, TransactionError_from(r.res, stored))
             ELSE IF s.result.kind # "Ok"
             THEN Arm(r.account, account_txs, gids, s.result)
             ELSE Arm(r.account, MapInsert(account_txs, tx.id, s.tx), gids, TxOk)

ResolveArm(account, account_txs, gids, tx) ==
    IF tx.id \notin DOMAIN account_txs
    THEN Arm(account, account_txs, gids, TxErr("TransactionNotFound", tx))
    ELSE LET stored == account_txs[tx.id]
             amount == Transaction_amount(stored)
         IN  IF ~amount.some
             THEN Arm(account, account_txs, gids, TxErr("InvalidTransactionId", stored))
             ELSE LET r == Account_release(account, amount.value)
                      s == Transaction_set_resolved(stored)
                  IN  IF r.res # "Ok"
                      THEN Arm(r.account, account_txs, gids,
                               TransactionError_from(r.res, stored))
                      ELSE IF s.result.kind # "Ok"
                      THEN Arm(r.account, account_txs, gids, s.result)
                      ELSE Arm(r.account, MapInsert(account_txs, tx.id, s.tx), gids, TxOk)


\* Faulty variant: the charged-back transaction stays in the history.
ChargebackArm_keep(account, account_txs, gids, tx) ==
    IF tx.id \notin DOMAIN account_txs
    THEN Arm(account, account_txs, gids, TxErr("TransactionNotFound", tx))
    ELSE LET stored == account_txs[tx.id]
             r == Account_chargeback(account, stored.amount)
             s == Transaction_set_chargeback(stored)
         IN  IF r.res # "Ok"
             THEN Arm(r.account, account_txs, gids, TransactionError_from(r.res, stored))
             ELSE IF s.result.kind # "Ok"
             THEN Arm(r.account, account_txs, gids, s.result)
             ELSE Arm(r.account, MapInsert(account_txs, tx.id, s.tx), gids, TxOk)

\* Faulty variant: a chargeback also frees the id of the transaction it removes.
ChargebackArm_unregister(account, account_txs, gids, tx) ==
    IF tx.id \notin DOMAIN account_txs
    THEN Arm(account, account_txs, gids, TxErr("TransactionNotFound", tx))
    ELSE LET stored == account_txs[tx.id]
             r == Account_chargeback(account, stored.amount)
             s == Transaction_set_chargeback(stored)
         IN  IF r.res # "Ok"
             THEN Arm(r.account, account_txs, gids, TransactionError_from(r.res, stored))
             ELSE IF s.result.kind # "Ok"
             THEN Arm(r.account, account_txs, gids, s.result)
             ELSE Arm(r.account, MapRemove(account_txs, tx.id), gids \ {tx.id}, TxOk)

ChargebackArm(account, account_txs, gids, tx) ==
    IF tx.id \notin DOMAIN account_txs
    THEN Arm(account, account_txs, gids, TxErr("TransactionNotFound", tx))
    ELSE LET stored == account_txs[tx.id]
             amount == Transaction_amount(stored)
         IN  IF ~amount.some
             THEN Arm(account, account_txs, gids, TxErr("InvalidTransactionId", stored))
             ELSE LET r == Account_chargeback(account, amount.value)
                      s == Transaction_set_chargeback(stored)
                  IN  IF r.res # "Ok"
                      THEN Arm(r.account, account_txs, gids,
                               TransactionError_from(r.res, stored))
                      ELSE IF s.result.kind # "Ok"
                      THEN Arm(r.account, account_txs, gids, s.result)
                      ELSE Arm(r.account, MapRemove(account_txs, tx.id), gids, TxOk)

\* accounts.entry(client).or_insert_with(|| (Account::new(client, 0, 0, false), {}))
EntryOrInsert(accts, client) ==
    IF client \in DOMAIN accts THEN accts
    ELSE [c \in DOMAIN accts \cup {client} |->
            IF c = client
            THEN [account |-> Account_new(client, Amount_default, Amount_default, FALSE),
                  account_txs |-> EmptyMap]
            ELSE accts[c]]

\* Faulty variant: the entry is inserted only when the record is accepted.
handle_transaction_insert_on_ok(accts, gids, tx) ==
    LET client == Transaction_client_id(tx)
        accts1 == EntryOrInsert(accts, client)
        e == accts1[client]
        a == CASE tx.type = "Deposit"    -> DepositArm(e.account, e.account_txs, gids, tx)
               [] tx.type = "Withdrawal" -> WithdrawalArm(e.account, e.account_txs, gids, tx)
               [] tx.type = "Dispute"    -> DisputeArm(e.account, e.account_txs, gids, tx)
               [] tx.type = "Resolve"    -> ResolveArm(e.account, e.account_txs, gids, tx)
               [] tx.type = "Chargeback" -> ChargebackArm(e.account, e.account_txs, gids, tx)
    IN  [accounts |-> IF a.result.kind # "Ok" /\ client \notin DOMAIN accts
                      THEN accts
                      ELSE [accts1 EXCEPT ![client] =
                               [account |-> a.account, account_txs |-> a.account_txs]],
         global_tx_ids |-> a.global_tx_ids,
         result |-> a.result]

\* handle_transaction as a function of the processor's state (accts, gids)
\* and the record tx: the new state and the returned Result.
handle_transaction(accts, gids, tx) ==
    LET client == Transaction_client_id(tx)
        accts1 == EntryOrInsert(accts, client)
        e == accts1[client]
        a == CASE tx.type = "Deposit"    -> DepositArm(e.account, e.account_txs, gids, tx)
               [] tx.type = "Withdrawal" -> WithdrawalArm(e.account, e.account_txs, gids, tx)
               [] tx.type = "Dispute"    -> DisputeArm(e.account, e.account_txs, gids, tx)
               [] tx.type = "Resolve"    -> ResolveArm(e.account, e.account_txs, gids, tx)
               [] tx.type = "Chargeback" -> ChargebackArm(e.account, e.account_txs, gids, tx)
    IN  [accounts |-> [accts1 EXCEPT ![client] =
                          [account |-> a.account, account_txs |-> a.account_txs]],
         global_tx_ids |-> a.global_tx_ids,
         result |-> a.result]

\* Faulty variant: accounts holding no funds are left out of the snapshot.
get_accounts_funded(accts) ==
    {accts[c].account : c \in {d \in DOMAIN accts : Account_total(accts[d].account) > 0}}

get_accounts(accts) == {accts[c].account : c \in DOMAIN accts}

\* --------------------------------------------------------- the record source
FundRecords ==
    {Transaction_deposit(i, a, c) : i \in TxIds, a \in Amounts, c \in Clients}
    \cup {Transaction_withdrawal(i, a, c) : i \in TxIds, a \in Amounts, c \in Clients}

CommandRecords ==
    {Transaction_dispute(i, c) : i \in TxIds, c \in Clients}
    \cup {Transaction_resolve(i, c) : i \in TxIds, c \in Clients}
    \cup {Transaction_chargeback(i, c) : i \in TxIds, c \in Clients}

Records == FundRecords \cup CommandRecords

NoResult == [kind |-> "None", tx |-> NoTx]

InitLedger ==
    /\ accounts = [c \in {} |-> NoTx]
    /\ global_tx_ids = {}
    /\ last = NoTx
    /\ result = NoResult
    /\ pos = 0
    /\ handled = <<>>
    /\ snapshot = {}
    /\ pc = "run"

InitTxn ==
    /\ txn = NoTx
    /\ txn_result = [req |-> "None", kind |-> "None"]

\* No Mutex is held and nobody else calls handle_transaction.
NoLocks == [accounts |-> 0, global_tx_ids |-> 0]

InitTasks ==
    /\ tasks = <<>>
    /\ locks = NoLocks

\* Nothing has been written to standard output.
NoOutput == [written |-> FALSE, rows |-> {}]

InitOutput == stdout = NoOutput

\* No Amount arithmetic and no row is being worked on.
InitPure ==
    /\ operands = [op |-> "None"]
    /\ row = [step |-> "None"]

Init ==
    /\ InitOutput
    /\ InitLedger
    /\ InitTxn
    /\ InitTasks
    /\ InitPure
    /\ stream = <<>>

\* One call of handle_transaction(tx) on the processor.
Apply(tx) ==
    LET r == handle_transaction(accounts, global_tx_ids, tx)
    IN  /\ accounts' = r.accounts
        /\ global_tx_ids' = r.global_tx_ids
        /\ last' = tx
        /\ result' = r.result

ApplyDeposit ==
    \E i \in TxIds, a \in Amounts, c \in Clients :
        /\ pos < MaxRecords
        /\ Apply(Transaction_deposit(i, a, c))
        /\ pos' = pos + 1
        /\ UNCHANGED <<stream, handled, snapshot, pc, txn, txn_result, tasks, locks, operands, row, stdout>>

ApplyWithdrawal ==
    \E i \in TxIds, a \in Amounts, c \in Clients :
        /\ pos < MaxRecords
        /\ Apply(Transaction_withdrawal(i, a, c))
        /\ pos' = pos + 1
        /\ UNCHANGED <<stream, handled, snapshot, pc, txn, txn_result, tasks, locks, operands, row, stdout>>

ApplyDispute ==
    \E i \in TxIds, c \in Clients :
        /\ pos < MaxRecords
        /\ Apply(Transaction_dispute(i, c))
        /\ pos' = pos + 1
        /\ UNCHANGED <<stream, handled, snapshot, pc, txn, txn_result, tasks, locks, operands, row, stdout>>

ApplyResolve ==
    \E i \in TxIds, c \in Clients :
        /\ pos < MaxRecords
        /\ Apply(Transaction_resolve(i, c))
        /\ pos' = pos + 1
        /\ UNCHANGED <<stream, handled, snapshot, pc, txn, txn_result, tasks, locks, operands, row, stdout>>

ApplyChargeback ==
    \E i \in TxIds, c \in Clients :
        /\ pos < MaxRecords
        /\ Apply(Transaction_chargeback(i, c))
        /\ pos' = pos + 1
        /\ UNCHANGED <<stream, handled, snapshot, pc, txn, txn_result, tasks, locks, operands, row, stdout>>

Next ==
    \/ ApplyDeposit
    \/ ApplyWithdrawal
    \/ ApplyDispute
    \/ ApplyResolve
    \/ ApplyChargeback

Spec == Init /\ [][Next]_vars

\* ------------------------------------------------- process_transactions
\* amount("1") of the tests, in units of 10^-MAX_DECIMAL_PLACES
One == 10 ^ MAX_DECIMAL_PLACES

ParsedOk(tx) == [ok |-> TRUE, tx |-> tx]

ParseError == [ok |-> FALSE, tx |-> NoTx]

\* The input of test_process_transactions_with_dispute_and_chargeback; the
\* inputs of the other tests of processor.rs are its prefixes of length 4, 5, 6.
ScenarioStream ==
    << ParsedOk(Transaction_deposit(1, One, 1)),
       ParsedOk(Transaction_deposit(2, One, 1)),
       ParsedOk(Transaction_deposit(3, One, 1)),
       ParsedOk(Transaction_withdrawal(4, One, 1)),
       ParsedOk(Transaction_dispute(3, 1)),
       ParsedOk(Transaction_resolve(3, 1)),
       ParsedOk(Transaction_dispute(3, 1)),
       ParsedOk(Transaction_chargeback(3, 1)) >>

ScenarioIds == 1..4

ExtraItems ==
    {ParseError}
    \cup {ParsedOk(Transaction_deposit(i, One, c)) : i \in ScenarioIds, c \in Clients}
    \cup {ParsedOk(Transaction_withdrawal(i, One, c)) : i \in ScenarioIds, c \in Clients}
    \cup {ParsedOk(Transaction_dispute(i, c)) : i \in ScenarioIds, c \in Clients}
    \cup {ParsedOk(Transaction_resolve(i, c)) : i \in ScenarioIds, c \in Clients}
    \cup {ParsedOk(Transaction_chargeback(i, c)) : i \in ScenarioIds, c \in Clients}

ExtraSeqs == UNION {[1..n -> ExtraItems] : n \in 0..MaxExtra}

\* Input streams: a prefix of the scenario with at most MaxExtra records
\* inserted at one place (possibly at its end).
StreamInputs ==
    {SubSeq(ScenarioStream, 1, n) \o e \o SubSeq(ScenarioStream, n + 1, m) :
        n \in 0..Len(ScenarioStream), m \in 0..Len(ScenarioStream), e \in ExtraSeqs}

InitStream ==
    /\ InitOutput
    /\ InitLedger
    /\ InitTxn
    /\ InitTasks
    /\ InitPure
    /\ stream \in StreamInputs

\* Faulty variant: a record rejected by handle_transaction is dropped silently.
StreamApply_silent ==
    /\ pc = "run"
    /\ pos < Len(stream)
    /\ stream[pos + 1].ok
    /\ Apply(stream[pos + 1].tx)
    /\ pos' = pos + 1
    /\ UNCHANGED <<stream, handled, snapshot, pc, txn, txn_result, tasks, locks, operands, row, stdout>>

\* Faulty variant: the first record that handle_transaction rejects ends the loop.
StreamApply_abort ==
    /\ pc = "run"
    /\ pos < Len(stream)
    /\ stream[pos + 1].ok
    /\ Apply(stream[pos + 1].tx)
    /\ handled' = IF result'.kind = "Ok" THEN handled
                  ELSE Append(handled, [tag |-> "TransactionProcessingError",
                                        kind |-> result'.kind, tx |-> result'.tx])
    /\ pos' = pos + 1
    /\ pc' = IF result'.kind = "Ok" THEN pc ELSE "aborted"
    /\ UNCHANGED <<stream, snapshot, txn, txn_result, tasks, locks, operands, row, stdout>>

\* Loop body, Ok(tx) item: handle_transaction, then error_handler on Err.
StreamApply ==
    /\ pc = "run"
    /\ pos < Len(stream)
    /\ stream[pos + 1].ok
    /\ Apply(stream[pos + 1].tx)
    /\ handled' = IF result'.kind = "Ok" THEN handled
                  ELSE Append(handled, [tag |-> "TransactionProcessingError",
                                        kind |-> result'.kind, tx |-> result'.tx])
    /\ pos' = pos + 1
    /\ UNCHANGED <<stream, snapshot, pc, txn, txn_result, tasks, locks, operands, row, stdout>>

\* Faulty variant: a parse failure is reported with the tag of ledger failures.
StreamParseError_as_processing ==
    /\ pc = "run"
    /\ pos < Len(stream)
    /\ ~stream[pos + 1].ok
    /\ handled' = Append(handled, [tag |-> "TransactionProcessingError",
                                   kind |-> "CsvError", tx |-> NoTx])
    /\ pos' = pos + 1
    /\ UNCHANGED <<accounts, global_tx_ids, last, result, stream, snapshot, pc,
                   txn, txn_result, tasks, locks, operands, row, stdout>>

\* Loop body, Err(e) item: error_handler only.
StreamParseError ==
    /\ pc = "run"
    /\ pos < Len(stream)
    /\ ~stream[pos + 1].ok
    /\ handled' = Append(handled, [tag |-> "TransactionParsingError",
                                   kind |-> "CsvError", tx |-> NoTx])
    /\ pos' = pos + 1
    /\ UNCHANGED <<accounts, global_tx_ids, last, result, stream, snapshot, pc,
                   txn, txn_result, tasks, locks, operands, row, stdout>>

\* End of stream: Ok(get_accounts()).
StreamEnd ==
    /\ pc = "run"
    /\ pos = Len(stream)
    /\ snapshot' = get_accounts(accounts)
    /\ pc' = "done"
    /\ UNCHANGED <<accounts, global_tx_ids, last, result, pos, stream, handled,
                   txn, txn_result, tasks, locks, operands, row, stdout>>

NextStream ==
    \/ StreamApply
    \/ StreamParseError
    \/ StreamEnd

SpecStream == InitStream /\ [][NextStream]_vars

\* The loop of process_transactions is the only thing running: a step that can
\* be taken is eventually taken (the stream yields, the handler returns).
SpecStreamFair == SpecStream /\ WF_vars(NextStream)

\* ------------------------------------------- Transaction::change_state alone
TransactionStates == {"Okay", "Disputed", "ChargedBack"}

TxnInputs ==
    {[t EXCEPT !.state = st] : t \in FundRecords, st \in TransactionStates}
    \cup CommandRecords

InitChangeState ==
    /\ InitOutput
    /\ InitLedger
    /\ InitTasks
    /\ InitPure
    /\ stream = <<>>
    /\ txn \in TxnInputs
    /\ txn_result = [req |-> "None", kind |-> "None"]

SetDisputed ==
    LET r == Transaction_set_disputed(txn)
    IN  /\ txn' = r.tx
        /\ txn_result' = [req |-> "Disputed", kind |-> r.result.kind]
        /\ UNCHANGED <<accounts, global_tx_ids, last, result, pos, stream, handled,
                       snapshot, pc, tasks, locks, operands, row, stdout>>

SetResolved ==
    LET r == Transaction_set_resolved(txn)
    IN  /\ txn' = r.tx
        /\ txn_result' = [req |-> "Okay", kind |-> r.result.kind]
        /\ UNCHANGED <<accounts, global_tx_ids, last, result, pos, stream, handled,
                       snapshot, pc, tasks, locks, operands, row, stdout>>

SetChargeback ==
    LET r == Transaction_set_chargeback(txn)
    IN  /\ txn' = r.tx
        /\ txn_result' = [req |-> "ChargedBack", kind |-> r.result.kind]
        /\ UNCHANGED <<accounts, global_tx_ids, last, result, pos, stream, handled,
                       snapshot, pc, tasks, locks, operands, row, stdout>>

NextChangeState ==
    \/ SetDisputed
    \/ SetResolved
    \/ SetChargeback

SpecChangeState == InitChangeState /\ [][NextChangeState]_vars

\* ---------------------------------------------------------------- helpers
Acct(c) == accounts[c].account

Hist(c) == accounts[c].account_txs

\* ------------------------------------------------------------------ claims
\* The entries of the accounts that exist now are the same in r.
ExistingUnchanged(r) ==
    \A c \in DOMAIN accounts : c \in DOMAIN r.accounts /\ r.accounts[c] = accounts[c]

\* An account that r created is the zero account with an empty history.
CreatedAreFresh(r) ==
    \A c \in DOMAIN r.accounts \ DOMAIN accounts :
        /\ r.accounts[c].account.available = 0
        /\ r.accounts[c].account.held = 0
        /\ ~r.accounts[c].account.locked
        /\ DOMAIN r.accounts[c].account_txs = {}

\* C1: after any sequence of applied records, every account's available and
\* held are non-negative and Account::total() equals available + held.
Inv_C1 ==
    \A c \in DOMAIN accounts :
        /\ Acct(c).available >= 0
        /\ Acct(c).held >= 0
        /\ Account_total(Acct(c)) = Acct(c).available + Acct(c).held

\* A failing record has been applied to an account that holds funds in both
\* balances.
Witness_C1 ==
    /\ result.kind = "InsufficientFunds"
    /\ \E c \in DOMAIN accounts :
          /\ c = Transaction_client_id(last)
          /\ Acct(c).available > 0
          /\ Acct(c).held > 0

\* C2: the stored total field is maintained on every write: it equals
\* available + held and agrees with the recomputed Account::total().
Cex_C2 ==
    \A c \in DOMAIN accounts :
        /\ Acct(c).total = Acct(c).available + Acct(c).held
        /\ Acct(c).total = Account_total(Acct(c))

\* C3: a deposit or withdrawal whose id is in the global registry (whoever
\* registered it) is rejected as a duplicate, is stored in no history and
\* changes no account and not the registry.
Inv_C3 ==
    \A tx \in FundRecords :
        tx.id \in global_tx_ids =>
            LET r == handle_transaction(accounts, global_tx_ids, tx)
            IN  /\ r.result.kind = "DuplicateGlobalTransactionId"
                /\ ExistingUnchanged(r)
                /\ CreatedAreFresh(r)
                /\ r.global_tx_ids = global_tx_ids

\* A deposit or withdrawal was rejected as a duplicate of an id that another
\* client registered.
Witness_C3 ==
    /\ result.kind = "DuplicateGlobalTransactionId"
    /\ HoldsFunds(last)
    /\ \E c \in DOMAIN accounts :
          c # last.client_id /\ last.id \in DOMAIN Hist(c)

\* C4: for a stored deposit of amount A in state Okay on an unlocked account
\* with available >= A, a dispute moves A from available to held and keeps the
\* total; a following resolve restores available and held; a chargeback of the
\* disputed deposit takes A from held, keeps available, lowers the total by A
\* and locks the account.
Inv_C4 ==
    \A c \in DOMAIN accounts : \A id \in DOMAIN Hist(c) :
        LET t == Hist(c)[id]
            a0 == Acct(c)
        IN  (t.type = "Deposit" /\ t.state = "Okay" /\ ~a0.locked
                /\ a0.available >= t.amount) =>
            LET d == handle_transaction(accounts, global_tx_ids,
                                        Transaction_dispute(id, c))
                ad == d.accounts[c].account
                r == handle_transaction(d.accounts, d.global_tx_ids,
                                        Transaction_resolve(id, c))
                ar == r.accounts[c].account
                b == handle_transaction(d.accounts, d.global_tx_ids,
                                        Transaction_chargeback(id, c))
                ab == b.accounts[c].account
            IN  /\ d.result.kind = "Ok"
                /\ ad.available = a0.available - t.amount
                /\ ad.held = a0.held + t.amount
                /\ Account_total(ad) = Account_total(a0)
                /\ ~ad.locked
                /\ r.result.kind = "Ok"
                /\ ar.available = a0.available
                /\ ar.held = a0.held
                /\ ~ar.locked
                /\ b.result.kind = "Ok"
                /\ ab.held = ad.held - t.amount
                /\ ab.available = ad.available
                /\ Account_total(ab) = Account_total(ad) - t.amount
                /\ ab.locked

\* The dispute of a deposit of a positive amount has just been resolved, and
\* the deposit can be disputed again.
Witness_C4 ==
    /\ last.type = "Resolve"
    /\ result.kind = "Ok"
    /\ LET c == last.client
           t == Hist(c)[last.id]
       IN  /\ t.type = "Deposit"
           /\ t.amount > 0
           /\ t.state = "Okay"
           /\ ~Acct(c).locked
           /\ Acct(c).available >= t.amount

\* C6: on a locked account deposit, withdraw, hold, release and chargeback
\* fail with AccountLocked for every amount, also one above the balance, and
\* leave the account as it is.
Inv_C6 ==
    \A c \in DOMAIN accounts :
        Acct(c).locked =>
            \A amt \in 0..(Acct(c).available + Acct(c).held + MaxAmount) :
                LET refused == [account |-> Acct(c), res |-> "AccountLocked"]
                IN  /\ Account_deposit(Acct(c), amt) = refused
                    /\ Account_withdraw(Acct(c), amt) = refused
                    /\ Account_hold(Acct(c), amt) = refused
                    /\ Account_release(Acct(c), amt) = refused
                    /\ Account_chargeback(Acct(c), amt) = refused

\* A withdrawal of more than the available balance was refused as frozen.
Witness_C6 ==
    /\ last.type = "Withdrawal"
    /\ result.kind = "AccountFrozen"
    /\ Acct(last.client_id).locked
    /\ last.amount > Acct(last.client_id).available

\* C7: once an account is locked it stays locked, every later record routed to
\* it fails, and none changes its balances, its history or a stored state.
Inv_C7 ==
    [][\A c \in DOMAIN accounts :
          Acct(c).locked =>
              /\ c \in DOMAIN accounts'
              /\ accounts'[c] = accounts[c]
              /\ (pos' # pos /\ Transaction_client_id(last') = c) =>
                     result'.kind \notin {"Ok", "None"}]_vars

\* A record sent to a locked account that still holds funds and a stored
\* transaction was refused.
Witness_C7 ==
    /\ result.kind = "AccountFrozen"
    /\ LET c == Transaction_client_id(last)
       IN  /\ Acct(c).locked
           /\ Acct(c).available > 0
           /\ DOMAIN Hist(c) # {}

\* C8: a dispute, resolve or chargeback whose id is not in the history of its
\* own client fails with TransactionNotFound and changes no existing account,
\* stored state or history, and not the registry.
Inv_C8 ==
    \A tx \in CommandRecords :
        (tx.client \notin DOMAIN accounts \/ tx.id \notin DOMAIN Hist(tx.client)) =>
            LET r == handle_transaction(accounts, global_tx_ids, tx)
            IN  /\ r.result.kind = "TransactionNotFound"
                /\ ExistingUnchanged(r)
                /\ CreatedAreFresh(r)
                /\ r.global_tx_ids = global_tx_ids

\* A command naming an id that only another client's history holds was
\* answered with TransactionNotFound.
Witness_C8 ==
    /\ last.type \in {"Dispute", "Resolve", "Chargeback"}
    /\ result.kind = "TransactionNotFound"
    /\ last.id \in global_tx_ids
    /\ \E c \in DOMAIN accounts : c # last.client /\ last.id \in DOMAIN Hist(c)

\* C9: on a Deposit or Withdrawal, change_state succeeds exactly for
\* Okay->Disputed, Disputed->Okay and Disputed->ChargedBack; any other pair
\* returns IllegalStateChange and leaves the state as it is.
AllowedTransitions ==
    {<<"Okay", "Disputed">>, <<"Disputed", "Okay">>, <<"Disputed", "ChargedBack">>}

Inv_C9 ==
    HoldsFunds(txn) =>
        \A req \in TransactionStates :
            LET r == Transaction_change_state(txn, req)
                viaSet == CASE req = "Disputed"    -> Transaction_set_disputed(txn)
                            [] req = "Okay"        -> Transaction_set_resolved(txn)
                            [] req = "ChargedBack" -> Transaction_set_chargeback(txn)
            IN  /\ viaSet = r
                /\ IF <<txn.state, req>> \in AllowedTransitions
                   THEN /\ r.result.kind = "Ok"
                        /\ r.tx = [txn EXCEPT !.state = req]
                   ELSE /\ r.result.kind = "IllegalStateChange"
                        /\ r.tx = txn

\* A transition out of ChargedBack was requested and refused.
Witness_C9 ==
    /\ HoldsFunds(txn)
    /\ txn.state = "ChargedBack"
    /\ txn_result.kind = "IllegalStateChange"

\* C10: a withdrawal, dispute, resolve or chargeback that fails with
\* insufficient funds leaves available, held and locked of the account and the
\* state of the referenced transaction unchanged.
Cex_C10 ==
    [][(pos' # pos /\ result'.kind = "InsufficientFunds") =>
          \A c \in DOMAIN accounts :
              /\ accounts'[c].account.available = Acct(c).available
              /\ accounts'[c].account.held = Acct(c).held
              /\ accounts'[c].account.locked = Acct(c).locked
              /\ accounts'[c].account_txs = Hist(c)]_vars

\* C5: the scenario on client 1.  After deposits of 1 with ids 1, 2, 3 and a
\* withdrawal of 1 with id 4 the account is (2, 0, 2, unlocked); after the
\* dispute of id 3 it is (1, 1, 2, unlocked); after the resolve (2, 0, 2,
\* unlocked); after a second dispute and the chargeback (1, 0, 1, locked); the
\* snapshot holds exactly one account.
ScenarioDone(k) ==
    /\ pos = k
    /\ Len(stream) >= k
    /\ SubSeq(stream, 1, k) = SubSeq(ScenarioStream, 1, k)

AccountIs(c, available, held, total, locked) ==
    /\ c \in DOMAIN accounts
    /\ Acct(c).available = available * One
    /\ Acct(c).held = held * One
    /\ Account_total(Acct(c)) = total * One
    /\ Acct(c).locked = locked

Inv_C5 ==
    /\ ScenarioDone(4) => AccountIs(1, 2, 0, 2, FALSE)
    /\ ScenarioDone(5) => AccountIs(1, 1, 1, 2, FALSE)
    /\ ScenarioDone(6) => AccountIs(1, 2, 0, 2, FALSE)
    /\ ScenarioDone(8) => AccountIs(1, 1, 0, 1, TRUE)
    /\ \A k \in 1..Len(ScenarioStream) :
          (pc = "done" /\ stream = SubSeq(ScenarioStream, 1, k)) =>
              /\ Cardinality(snapshot) = 1
              /\ \A a \in snapshot : a = Acct(1)

\* The whole scenario has been processed and its snapshot returned.
Witness_C5 ==
    /\ pc = "done"
    /\ stream = ScenarioStream
    /\ ScenarioDone(8)
    /\ snapshot = {Acct(1)}
    /\ Acct(1).locked

\* ---------------------------------------------------- claims C11 to C20
CommandTypes == {"Dispute", "Resolve", "Chargeback"}

\* The state a command requires of the transaction it names.
RequiredState(type) == IF type = "Dispute" THEN "Okay" ELSE "Disputed"

\* The step applies a command whose id is in the history of its client, on a
\* stored transaction that is not in the state the command requires.
WrongStateStep ==
    /\ pos' # pos
    /\ last'.type \in CommandTypes
    /\ last'.client \in DOMAIN accounts
    /\ last'.id \in DOMAIN Hist(last'.client)
    /\ Hist(last'.client)[last'.id].state # RequiredState(last'.type)

\* C11: a dispute, resolve or chargeback naming an id of the account's history
\* whose transaction is not in the required prior state fails with the
\* illegal-state-change error.
Cex_C11 == [][WrongStateStep => result'.kind = "IllegalStateChange"]_vars

\* C12: a dispute, resolve or chargeback whose referenced transaction is not
\* in the required prior state leaves available, held and locked of the
\* account and the state of the referenced transaction unchanged.
Cex_C12 ==
    [][WrongStateStep =>
          /\ accounts'[last'.client].account.available = Acct(last'.client).available
          /\ accounts'[last'.client].account.held = Acct(last'.client).held
          /\ accounts'[last'.client].account.locked = Acct(last'.client).locked
          /\ accounts'[last'.client].account_txs = Hist(last'.client)]_vars

\* The step applies a chargeback that names a transaction of its client's
\* history which is Disputed when the record is applied.
ChargebackOfDisputed(c) ==
    /\ pos' # pos
    /\ last'.type = "Chargeback"
    /\ last'.client = c
    /\ c \in DOMAIN accounts
    /\ last'.id \in DOMAIN Hist(c)
    /\ Hist(c)[last'.id].state = "Disputed"

\* C13: an account becomes locked, and a chargeback lowers its held balance,
\* only when the applied chargeback names a transaction that is in the
\* account's history in state Disputed at that moment.
Cex_C13 ==
    [][\A c \in DOMAIN accounts' :
          LET before == IF c \in DOMAIN accounts THEN Acct(c)
                        ELSE Account_new(c, Amount_default, Amount_default, FALSE)
              after == accounts'[c].account
          IN  /\ (after.locked /\ ~before.locked) => ChargebackOfDisputed(c)
              /\ (pos' # pos /\ last'.type = "Chargeback" /\ after.held < before.held)
                    => ChargebackOfDisputed(c)]_vars

\* C14: the registry grows exactly by the id of each deposit or withdrawal
\* that is applied successfully, which is then in its account's history; a
\* deposit or withdrawal that fails registers nothing, so its id can be used
\* again without being a duplicate.
Inv_C14 ==
    [][pos' # pos =>
          IF HoldsFunds(last') /\ result'.kind = "Ok"
          THEN /\ last'.id \notin global_tx_ids
               /\ global_tx_ids' = global_tx_ids \cup {last'.id}
               /\ last'.id \in DOMAIN accounts'[last'.client_id].account_txs
               /\ accounts'[last'.client_id].account_txs[last'.id] = last'
          ELSE /\ global_tx_ids' = global_tx_ids
               /\ (HoldsFunds(last') /\ last'.id \notin global_tx_ids) =>
                     \A tx \in FundRecords :
                         tx.id = last'.id =>
                             handle_transaction(accounts', global_tx_ids', tx).result.kind
                                 # "DuplicateGlobalTransactionId"]_vars

\* A withdrawal with a fresh id has failed on an account that has a registered
\* deposit, and its id is not in the registry.
Witness_C14 ==
    /\ last.type = "Withdrawal"
    /\ result.kind \in {"InsufficientFunds", "AccountFrozen"}
    /\ last.id \notin global_tx_ids
    /\ DOMAIN Hist(last.client_id) # {}

\* The ids that are registered but held by no history.
RemovedIds ==
    {id \in global_tx_ids : \A c \in DOMAIN accounts : id \notin DOMAIN Hist(c)}

\* C15: a successful chargeback removes the referenced transaction from the
\* account's history, a failing chargeback removes nothing, and from then on
\* every dispute, resolve or chargeback naming a removed id fails with
\* TransactionNotFound.
Inv_C15 ==
    [][/\ pos' # pos /\ last'.type = "Chargeback" =>
              IF result'.kind = "Ok"
              THEN /\ last'.id \in DOMAIN Hist(last'.client)
                   /\ DOMAIN accounts'[last'.client].account_txs
                         = DOMAIN Hist(last'.client) \ {last'.id}
                   /\ last'.id \in RemovedIds'
              ELSE \A c \in DOMAIN accounts :
                      DOMAIN accounts'[c].account_txs = DOMAIN Hist(c)
       /\ RemovedIds \subseteq RemovedIds'
       /\ \A tx \in CommandRecords :
              tx.id \in RemovedIds' =>
                  handle_transaction(accounts', global_tx_ids', tx).result.kind
                      = "TransactionNotFound"]_vars

\* After a chargeback removed a transaction, a dispute naming its id on the
\* same, now locked, account was answered with TransactionNotFound.
Witness_C15 ==
    /\ last.type = "Dispute"
    /\ result.kind = "TransactionNotFound"
    /\ last.id \in RemovedIds
    /\ Acct(last.client).locked

\* C20 as stated: set_disputed, set_resolved or set_chargeback on a Dispute,
\* Resolve or Chargeback command-transaction fails with IllegalStateChange.
Cex_C20 ==
    (txn.type \in CommandTypes /\ txn_result.kind # "None") =>
        txn_result.kind = "IllegalStateChange"

\* C20 amended: on a command-transaction each of set_disputed, set_resolved and
\* set_chargeback fails with InvalidTransactionId carrying that transaction,
\* and leaves the transaction as it is.
Inv_C20 ==
    txn.type \in CommandTypes =>
        /\ txn_result.kind \in {"None", "InvalidTransactionId"}
        /\ \A r \in {Transaction_set_disputed(txn), Transaction_set_resolved(txn),
                      Transaction_set_chargeback(txn)} :
              /\ r.result = TxErr("InvalidTransactionId", txn)
              /\ r.tx = txn

Witness_C20 ==
    /\ txn.type \in CommandTypes
    /\ txn_result.kind = "InvalidTransactionId"
    /\ txn_result.req = "ChargedBack"

\* C16: process_transactions takes the records of the stream in order, each
\* exactly once, whether or not the one before failed; the run ends, and it
\* ends after the last record with Ok(snapshot of the accounts).
TakesNextRecord ==
    /\ pc = "run"
    /\ pos < Len(stream)
    /\ pos' = pos + 1
    /\ pc' = "run"
    /\ stream' = stream
    /\ IF stream[pos + 1].ok
       THEN LET r == handle_transaction(accounts, global_tx_ids, stream[pos + 1].tx)
            IN  /\ last' = stream[pos + 1].tx
                /\ accounts' = r.accounts
                /\ global_tx_ids' = r.global_tx_ids
                /\ result' = r.result
       ELSE UNCHANGED <<accounts, global_tx_ids, last, result>>

ReturnsSnapshot ==
    /\ pc = "run"
    /\ pos = Len(stream)
    /\ pc' = "done"
    /\ snapshot' = get_accounts(accounts)
    /\ UNCHANGED <<accounts, global_tx_ids, pos, stream, handled>>

RECURSIVE LedgerAfter(_)
LedgerAfter(k) ==
    IF k = 0
    THEN [accounts |-> EmptyMap, global_tx_ids |-> {}, result |-> NoResult]
    ELSE LET before == LedgerAfter(k - 1)
         IN  IF stream[k].ok
             THEN handle_transaction(before.accounts, before.global_tx_ids, stream[k].tx)
             ELSE [before EXCEPT !.result = TxErr("CsvError", NoTx)]

FailedRecords(n) == {k \in 1..n : LedgerAfter(k).result.kind # "Ok"}

ReportsOnce ==
    IF pos' = pos
    THEN handled' = handled
    ELSE /\ pos' = pos + 1
         /\ IF stream[pos'].ok /\ result'.kind = "Ok"
            THEN handled' = handled
            ELSE /\ Len(handled') = Len(handled) + 1
                 /\ SubSeq(handled', 1, Len(handled)) = handled
                 /\ stream[pos'].ok =>
                       /\ handled'[Len(handled')].kind = result'.kind
                       /\ handled'[Len(handled')].tx = result'.tx

Inv_C17 ==
    /\ [][ReportsOnce]_vars
    /\ [](Len(handled) = Cardinality(FailedRecords(pos)))

\* A finished run in which two records failed and others were applied.
Witness_C17 ==
    /\ pc = "done"
    /\ Len(handled) = 2
    /\ Cardinality(FailedRecords(pos)) = 2
    /\ pos > 2

\* C18: a record that failed to parse goes to the handler tagged
\* TransactionParsingError, is not given to handle_transaction, and changes
\* no account, history or registered id; a record rejected by
\* handle_transaction goes to the same handler tagged TransactionProcessingError.
ParseFailureStep ==
    pos' # pos =>
        IF ~stream[pos'].ok
        THEN /\ Len(handled') = Len(handled) + 1
             /\ handled'[Len(handled')].tag = "TransactionParsingError"
             /\ UNCHANGED <<accounts, global_tx_ids, last, result>>
        ELSE /\ last' = stream[pos'].tx
             /\ result'.kind # "Ok" =>
                   /\ Len(handled') = Len(handled) + 1
                   /\ handled'[Len(handled')].tag = "TransactionProcessingError"

ParseFailures(n) == {k \in 1..n : ~stream[k].ok}

Inv_C18 ==
    /\ [][ParseFailureStep]_vars
    /\ [](Cardinality({i \in 1..Len(handled) :
                          handled[i].tag = "TransactionParsingError"})
             = Cardinality(ParseFailures(pos)))
    /\ [](\A i \in 1..Len(handled) :
             handled[i].tag \in {"TransactionParsingError", "TransactionProcessingError"})

\* A parse failure has just been reported while an account with a disputed
\* transaction exists.
Witness_C18 ==
    /\ pos > 0
    /\ ~stream[pos].ok
    /\ handled # <<>>
    /\ handled[Len(handled)].tag = "TransactionParsingError"
    /\ 1 \in DOMAIN accounts
    /\ Acct(1).held > 0
    /\ pos < Len(stream)

\* C19: an account exists exactly for the client ids of the parsed records
\* taken so far; it is created by the first such record, as the account with
\* available 0, held 0, unlocked and an empty history to which that record is
\* then applied; no account is ever deleted; the returned snapshot holds
\* exactly one account per such client id and no other.
ReferencedClients(n) ==
    {Transaction_client_id(stream[k].tx) : k \in {j \in 1..n : stream[j].ok}}

ZeroEntry(c) ==
    [account |-> [client_id |-> c, available |-> 0, held |-> 0, total |-> 0,
                  locked |-> FALSE],
     account_txs |-> EmptyMap]

LazyCreation ==
    /\ DOMAIN accounts \subseteq DOMAIN accounts'
    /\ \A c \in DOMAIN accounts' \ DOMAIN accounts :
          /\ stream[pos'].ok
          /\ c = Transaction_client_id(stream[pos'].tx)
          /\ accounts'[c] =
                handle_transaction(MapInsert(accounts, c, ZeroEntry(c)),
                                   global_tx_ids, stream[pos'].tx).accounts[c]
          /\ result'.kind # "Ok" => accounts'[c] = ZeroEntry(c)

Inv_C19 ==
    /\ [][LazyCreation]_vars
    /\ [](DOMAIN accounts = ReferencedClients(pos))
    /\ [](\A c \in DOMAIN accounts : Acct(c).client_id = c)
    /\ [](pc = "done" =>
             /\ \A c \in ReferencedClients(Len(stream)) :
                   Cardinality({a \in snapshot : a.client_id = c}) = 1
             /\ \A a \in snapshot : a.client_id \in ReferencedClients(Len(stream))
             /\ \A a \in snapshot : a = Acct(a.client_id))

\* The snapshot of a finished run holds client 1's funded account and the
\* still empty account that a rejected record created for client 2.
Witness_C19 ==
    /\ pc = "done"
    /\ Cardinality(snapshot) = 2
    /\ ZeroEntry(2).account \in snapshot
    /\ \E a \in snapshot : a.client_id = 1 /\ a.available > 0
    /\ Len(handled) > 0

\* ---------------------------------------------------- claims C21 to C30

\* C21: whenever applying a record fails, the transaction carried by the
\* returned error is the record that was being applied.
Cex_C21 ==
    result.kind \notin {"None", "Ok"} => result.tx = last

\* ------------------------------------- concurrent callers of handle_transaction
\* handle_transaction locks self.accounts, then self.global_tx_ids, and keeps
\* both guards until it returns.  Here NumTasks callers each apply one record to
\* a ledger on which a prefix of PreludeStream has already been applied.

NumTasks == 2

Tasks == 1..NumTasks

PreludeStream ==
    << ParsedOk(Transaction_deposit(1, MaxAmount, 1)),
       ParsedOk(Transaction_dispute(1, 1)) >>

NoView == [accounts |-> EmptyMap, global_tx_ids |-> {}]

InitConcurrent ==
    /\ InitOutput
    /\ stream \in {SubSeq(PreludeStream, 1, n) : n \in 0..Len(PreludeStream)}
    /\ pos = Len(stream)
    /\ accounts = LedgerAfter(pos).accounts
    /\ global_tx_ids = LedgerAfter(pos).global_tx_ids
    /\ last = NoTx
    /\ result = NoResult
    /\ handled = <<>>
    /\ snapshot = {}
    /\ pc = "run"
    /\ InitTxn
    /\ tasks \in [Tasks -> {[pc |-> "start", tx |-> tx, view |-> NoView,
                             result |-> NoResult] : tx \in Records}]
    /\ locks = NoLocks
    /\ InitPure

\* let mut accounts = self.accounts.lock().await;
LockAccounts ==
    \E t \in DOMAIN tasks :
        /\ tasks[t].pc = "start"
        /\ locks.accounts = 0
        /\ locks' = [locks EXCEPT !.accounts = t]
        /\ tasks' = [tasks EXCEPT ![t].pc = "has_accounts"]
        /\ UNCHANGED <<accounts, global_tx_ids, last, result, pos, stream, handled,
                       snapshot, pc, txn, txn_result, operands, row, stdout>>

\* let mut global_tx_ids = self.global_tx_ids.lock().await;
LockGlobalTxIds ==
    \E t \in DOMAIN tasks :
        /\ tasks[t].pc = "has_accounts"
        /\ locks.global_tx_ids = 0
        /\ locks' = [locks EXCEPT !.global_tx_ids = t]
        /\ tasks' = [tasks EXCEPT ![t].pc = "has_both"]
        /\ UNCHANGED <<accounts, global_tx_ids, last, result, pos, stream, handled,
                       snapshot, pc, txn, txn_result, operands, row, stdout>>

\* Faulty variant: both guards are dropped as soon as the lookups are made.
ReadLedger_unlock ==
    \E t \in DOMAIN tasks :
        /\ tasks[t].pc = "has_both"
        /\ tasks' = [tasks EXCEPT ![t].pc = "read",
                                  ![t].view = [accounts |-> accounts,
                                               global_tx_ids |-> global_tx_ids]]
        /\ locks' = NoLocks
        /\ UNCHANGED <<accounts, global_tx_ids, last, result, pos, stream, handled,
                       snapshot, pc, txn, txn_result, operands, row, stdout>>

\* The reads of the call: accounts.entry(..), global_tx_ids.contains(..),
\* account_txs.get_mut(..).
ReadLedger ==
    \E t \in DOMAIN tasks :
        /\ tasks[t].pc = "has_both"
        /\ tasks' = [tasks EXCEPT ![t].pc = "read",
                                  ![t].view = [accounts |-> accounts,
                                               global_tx_ids |-> global_tx_ids]]
        /\ UNCHANGED <<accounts, global_tx_ids, last, result, pos, stream, handled,
                       snapshot, pc, txn, txn_result, locks,
                       operands, row, stdout>>

\* The writes of the call, computed from what was read: the entry of the
\* record's client, the ids inserted in the registry, the returned Result.
WriteLedger ==
    \E t \in DOMAIN tasks :
        /\ tasks[t].pc = "read"
        /\ LET tx == tasks[t].tx
               view == tasks[t].view
               r == handle_transaction(view.accounts, view.global_tx_ids, tx)
               client == Transaction_client_id(tx)
           IN  /\ accounts' = MapInsert(accounts, client, r.accounts[client])
               /\ global_tx_ids' =
                     global_tx_ids \cup (r.global_tx_ids \ view.global_tx_ids)
               /\ last' = tx
               /\ result' = r.result
               /\ tasks' = [tasks EXCEPT ![t].pc = "written", ![t].result = r.result]
        /\ pos' = pos + 1
        /\ UNCHANGED <<stream, handled, snapshot, pc, txn, txn_result, locks,
                       operands, row, stdout>>

\* Faulty variant: the guards are dropped only when the call returns Ok.
Return_ok_only ==
    \E t \in DOMAIN tasks :
        /\ tasks[t].pc = "written"
        /\ locks' = IF tasks[t].result.kind = "Ok"
                    THEN [k \in DOMAIN locks |-> IF locks[k] = t THEN 0 ELSE locks[k]]
                    ELSE locks
        /\ tasks' = [tasks EXCEPT ![t].pc = "done"]
        /\ UNCHANGED <<accounts, global_tx_ids, last, result, pos, stream, handled,
                       snapshot, pc, txn, txn_result, operands, row, stdout>>

\* The call returns (with Ok, or early with an Err): its guards are dropped.
Return ==
    \E t \in DOMAIN tasks :
        /\ tasks[t].pc = "written"
        /\ locks' = [k \in DOMAIN locks |-> IF locks[k] = t THEN 0 ELSE locks[k]]
        /\ tasks' = [tasks EXCEPT ![t].pc = "done"]
        /\ UNCHANGED <<accounts, global_tx_ids, last, result, pos, stream, handled,
                       snapshot, pc, txn, txn_result, operands, row, stdout>>

NextConcurrent ==
    \/ LockAccounts
    \/ LockGlobalTxIds
    \/ ReadLedger
    \/ WriteLedger
    \/ Return

SpecConcurrent == InitConcurrent /\ [][NextConcurrent]_vars

\* C22: concurrent callers of handle_transaction exclude one another for the
\* whole call: at most one of them is between taking the second lock and
\* returning, the ledger a caller has read is still the ledger when it writes,
\* and once all have returned, the ledger and every caller's Result are those
\* of applying the same records one after the other in some order.
InCall(t) == tasks[t].pc \in {"has_both", "read", "written"}

Orders == {o \in [1..NumTasks -> Tasks] : \A i, j \in 1..NumTasks : o[i] = o[j] => i = j}

RECURSIVE SeqRun(_, _)
SeqRun(o, k) ==
    IF k = 0
    THEN [accounts |-> LedgerAfter(Len(stream)).accounts,
          global_tx_ids |-> LedgerAfter(Len(stream)).global_tx_ids,
          results |-> [t \in Tasks |-> NoResult]]
    ELSE LET before == SeqRun(o, k - 1)
             r == handle_transaction(before.accounts, before.global_tx_ids,
                                     tasks[o[k]].tx)
         IN  [accounts |-> r.accounts,
              global_tx_ids |-> r.global_tx_ids,
              results |-> [before.results EXCEPT ![o[k]] = r.result]]

AllReturned == \A t \in Tasks : tasks[t].pc = "done"

Outcome ==
    [accounts |-> accounts, global_tx_ids |-> global_tx_ids,
     results |-> [t \in Tasks |-> tasks[t].result]]

Inv_C22 ==
    /\ \A t, u \in Tasks : (InCall(t) /\ InCall(u)) => t = u
    /\ \A t \in Tasks : InCall(t) => locks = [accounts |-> t, global_tx_ids |-> t]
    /\ \A t \in Tasks :
          tasks[t].pc = "read" =>
              /\ tasks[t].view.accounts = accounts
              /\ tasks[t].view.global_tx_ids = global_tx_ids
    /\ AllReturned => \E o \in Orders : Outcome = SeqRun(o, NumTasks)

\* All callers have returned, and the order in which their records took
\* effect mattered: another order would have left a different ledger.
Witness_C22 ==
    /\ AllReturned
    /\ \E o \in Orders : Outcome = SeqRun(o, NumTasks)
    /\ \E o \in Orders : Outcome.accounts # SeqRun(o, NumTasks).accounts
    /\ \E t \in Tasks : tasks[t].tx.type \in CommandTypes /\ tasks[t].result.kind = "Ok"

\* ------------------------------------------------------ Amount arithmetic alone
\* checked_sub_assign and add_assign applied to Amounts of up to MaxOperand units.

MaxOperand == 10

InitAmount ==
    /\ InitOutput
    /\ InitLedger
    /\ InitTxn
    /\ InitTasks
    /\ stream = <<>>
    /\ row = [step |-> "None"]
    /\ operands \in [op : {"None"}, self : 0..MaxOperand, rhs : 0..MaxOperand,
                     res : {"None"}, err : {<<>>}]

CheckedSubAssign ==
    LET r == Amount_checked_sub_assign(operands.self, operands.rhs)
    IN  /\ operands' = [operands EXCEPT !.op = "checked_sub_assign", !.self = r.value,
                                        !.res = r.res, !.err = r.err]
        /\ UNCHANGED <<accounts, global_tx_ids, last, result, pos, stream, handled,
                       snapshot, pc, txn, txn_result, tasks, locks, row, stdout>>

AddAssign ==
    /\ operands.self <= MaxOperand
    /\ operands' = [operands EXCEPT !.op = "add_assign",
                                    !.self = Amount_add_assign(operands.self, operands.rhs),
                                    !.res = "Ok", !.err = <<>>]
    /\ UNCHANGED <<accounts, global_tx_ids, last, result, pos, stream, handled,
                   snapshot, pc, txn, txn_result, tasks, locks, row, stdout>>

NextAmount ==
    \/ CheckedSubAssign
    \/ AddAssign

SpecAmount == InitAmount /\ [][NextAmount]_vars

\* C23: checked_sub_assign fails exactly when rhs > self, with an error that
\* carries both operands, and then leaves self as it was; otherwise (rhs = self
\* included) it succeeds and self becomes self - rhs; add_assign always
\* succeeds with self + rhs.
ArithmeticStep ==
    /\ operands'.rhs = operands.rhs
    /\ operands'.op = "checked_sub_assign" =>
          IF operands.rhs > operands.self
          THEN /\ operands'.res = "SubtractToNegative"
               /\ operands'.err = <<operands.self, operands.rhs>>
               /\ operands'.self = operands.self
          ELSE /\ operands'.res = "Ok"
               /\ operands'.self + operands.rhs = operands.self
               /\ operands'.self >= 0
    /\ operands'.op = "add_assign" =>
          /\ operands'.res = "Ok"
          /\ operands'.self = operands.self + operands.rhs

Inv_C23 == [][ArithmeticStep]_vars

\* A positive amount has been subtracted from an equal one, leaving zero.
Witness_C23 ==
    /\ operands.op = "checked_sub_assign"
    /\ operands.res = "Ok"
    /\ operands.self = 0
    /\ operands.rhs > 0

\* ------------------------------------------------- from CSV text to Transaction
\* A decimal is a sign, a mantissa and a scale (the number of fractional
\* digits of its text): it stands for (-1)^neg * mant / 10^scale.

MaxMantissa == 25

MaxScale == 5

Decimals == [neg : BOOLEAN, mant : 0..MaxMantissa, scale : 0..MaxScale]

EmptyField == [kind |-> "empty"]

NotANumber == [kind |-> "garbage"]

DecimalText(d) == [kind |-> "decimal", neg |-> d.neg, mant |-> d.mant, scale |-> d.scale]

AmountTexts == {EmptyField, NotANumber} \cup {DecimalText(d) : d \in Decimals}

\* Decimal::from_str_exact: the scale of the value is the scale of the text.
Decimal_from_str_exact(v) ==
    IF v.kind = "decimal"
    THEN [ok |-> TRUE, decimal |-> [neg |-> v.neg, mant |-> v.mant, scale |-> v.scale]]
    ELSE [ok |-> FALSE, decimal |-> [neg |-> FALSE, mant |-> 0, scale |-> 0]]

\* Money::is_negative: below zero (a zero with a minus sign is not).
Money_is_negative(value) == value.neg /\ value.mant # 0

Amount_try_from(value) ==
    IF Money_is_negative(value)
    THEN [ok |-> FALSE, err |-> "NegativeValue", amount |-> value]
    ELSE [ok |-> TRUE, err |-> "None", amount |-> value]

\* Faulty variant: the number of fractional digits is not checked.
Amount_deserialize_any_scale(v) ==
    LET decimal == Decimal_from_str_exact(v)
        tx_amount == Amount_try_from(decimal.decimal)
    IN  IF ~decimal.ok
        THEN [ok |-> FALSE, err |-> "InvalidDecimal", amount |-> decimal.decimal]
        ELSE IF ~tx_amount.ok
        THEN [ok |-> FALSE, err |-> "InvalidAmount", amount |-> decimal.decimal]
        ELSE [ok |-> TRUE, err |-> "None", amount |-> tx_amount.amount]

\* AmountVisitor::visit_str.
Amount_deserialize(v) ==
    LET decimal == Decimal_from_str_exact(v)
        tx_amount == Amount_try_from(decimal.decimal)
    IN  IF ~decimal.ok
        THEN [ok |-> FALSE, err |-> "InvalidDecimal", amount |-> decimal.decimal]
        ELSE IF decimal.decimal.scale > MAX_DECIMAL_PLACES
        THEN [ok |-> FALSE, err |-> "TooManyDecimalPlaces", amount |-> decimal.decimal]
        ELSE IF ~tx_amount.ok
        THEN [ok |-> FALSE, err |-> "InvalidAmount", amount |-> decimal.decimal]
        ELSE [ok |-> TRUE, err |-> "None", amount |-> tx_amount.amount]

\* Decimal::round_dp_with_strategy(dp, MidpointAwayFromZero).
Decimal_round_dp(d, dp) ==
    IF d.scale <= dp THEN d
    ELSE LET unit == 10 ^ (d.scale - dp)
             q == d.mant \div unit
             rem == d.mant % unit
         IN  [neg |-> d.neg, mant |-> IF 2 * rem >= unit THEN q + 1 ELSE q, scale |-> dp]

\* Faulty variant: the amount is written with two fractional digits.
Amount_serialize_cents(self) == DecimalText(Decimal_round_dp(self, 2))

\* Serialize for Amount: the rounded decimal's digits (they hold no currency
\* symbol to remove).
Amount_serialize(self) == DecimalText(Decimal_round_dp(self, MAX_DECIMAL_PLACES))

\* PartialEq of Amount: the two decimals are the same number.
Amount_eq(a, b) ==
    /\ a.mant * (10 ^ b.scale) = b.mant * (10 ^ a.scale)
    /\ (a.mant # 0 => a.neg = b.neg)

\* The Amount of at most MAX_DECIMAL_PLACES digits as the ledger counts it:
\* in units of 10^-MAX_DECIMAL_PLACES.
Units(a) == a.mant * (10 ^ (MAX_DECIMAL_PLACES - a.scale))

RowTypes == {"Deposit", "Withdrawal", "Dispute", "Resolve", "Chargeback"}

TransactionRowType_has_amount(tx_type) ==
    tx_type \notin {"Dispute", "Resolve", "Chargeback"}

\* The text of a row: the type column may hold a word that is no type.
RowTexts == [type : RowTypes \cup {"unknown"}, tx : {1}, client : Clients,
             amount : AmountTexts]

NoAmount == [some |-> FALSE, value |-> [neg |-> FALSE, mant |-> 0, scale |-> 0]]

NoRow == [tx_id |-> 0, tx_type |-> "None", client |-> 0, amount |-> NoAmount]

\* Deserialize of TransactionRow: an empty amount column is None, any other
\* goes through the Deserialize of Amount.
TransactionRow_deserialize(text) ==
    LET a == Amount_deserialize(text.amount)
    IN  IF text.type \notin RowTypes
        THEN [ok |-> FALSE, row |-> NoRow]
        ELSE IF text.amount = EmptyField
        THEN [ok |-> TRUE,
              row |-> [tx_id |-> text.tx, tx_type |-> text.type, client |-> text.client,
                       amount |-> NoAmount]]
        ELSE IF ~a.ok
        THEN [ok |-> FALSE, row |-> NoRow]
        ELSE [ok |-> TRUE,
              row |-> [tx_id |-> text.tx, tx_type |-> text.type, client |-> text.client,
                       amount |-> [some |-> TRUE, value |-> a.amount]]]

\* Faulty variant: the amount column of a row is ignored where it is not needed.
Transaction_try_from_ignoring(row_result) ==
    LET transaction_row == row_result.row
        amount == Units(transaction_row.amount.value)
    IN  IF ~row_result.ok
        THEN [ok |-> FALSE, tx |-> NoTx]
        ELSE IF /\ TransactionRowType_has_amount(transaction_row.tx_type)
                /\ ~transaction_row.amount.some
        THEN [ok |-> FALSE, tx |-> NoTx]
        ELSE [ok |-> TRUE,
              tx |-> CASE transaction_row.tx_type = "Deposit" ->
                            Transaction_deposit(transaction_row.tx_id, amount,
                                                transaction_row.client)
                       [] transaction_row.tx_type = "Withdrawal" ->
                            Transaction_withdrawal(transaction_row.tx_id, amount,
                                                   transaction_row.client)
                       [] transaction_row.tx_type = "Dispute" ->
                            Transaction_dispute(transaction_row.tx_id, transaction_row.client)
                       [] transaction_row.tx_type = "Resolve" ->
                            Transaction_resolve(transaction_row.tx_id, transaction_row.client)
                       [] transaction_row.tx_type = "Chargeback" ->
                            Transaction_chargeback(transaction_row.tx_id,
                                                   transaction_row.client)]

\* TryFrom<CsvResult<TransactionRow>> for Transaction.
Transaction_try_from(row_result) ==
    LET transaction_row == row_result.row
        amount == Units(transaction_row.amount.value)
    IN  IF ~row_result.ok
        THEN [ok |-> FALSE, tx |-> NoTx]
        ELSE IF /\ ~TransactionRowType_has_amount(transaction_row.tx_type)
                /\ transaction_row.amount.some
        THEN [ok |-> FALSE, tx |-> NoTx]
        ELSE IF /\ TransactionRowType_has_amount(transaction_row.tx_type)
                /\ ~transaction_row.amount.some
        THEN [ok |-> FALSE, tx |-> NoTx]
        ELSE [ok |-> TRUE,
              tx |-> CASE transaction_row.tx_type = "Deposit" ->
                            Transaction_deposit(transaction_row.tx_id, amount,
                                                transaction_row.client)
                       [] transaction_row.tx_type = "Withdrawal" ->
                            Transaction_withdrawal(transaction_row.tx_id, amount,
                                                   transaction_row.client)
                       [] transaction_row.tx_type = "Dispute" ->
                            Transaction_dispute(transaction_row.tx_id, transaction_row.client)
                       [] transaction_row.tx_type = "Resolve" ->
                            Transaction_resolve(transaction_row.tx_id, transaction_row.client)
                       [] transaction_row.tx_type = "Chargeback" ->
                            Transaction_chargeback(transaction_row.tx_id,
                                                   transaction_row.client)]

\* One item of tx_stream: the text of a row is deserialized into a
\* CsvResult<TransactionRow>, which Transaction::try_from then converts.
InitRow ==
    /\ InitOutput
    /\ InitLedger
    /\ InitTxn
    /\ InitTasks
    /\ stream = <<>>
    /\ operands = [op |-> "None"]
    /\ row \in [step : {"text"}, text : RowTexts,
                parsed : {[ok |-> FALSE, row |-> NoRow]}, tx : {ParseError}]

DeserializeRow ==
    /\ row.step = "text"
    /\ row' = [row EXCEPT !.step = "row", !.parsed = TransactionRow_deserialize(row.text)]
    /\ UNCHANGED <<accounts, global_tx_ids, last, result, pos, stream, handled,
                   snapshot, pc, txn, txn_result, tasks, locks, operands, stdout>>

TryFromRow ==
    /\ row.step = "row"
    /\ row' = [row EXCEPT !.step = "transaction", !.tx = Transaction_try_from(row.parsed)]
    /\ UNCHANGED <<accounts, global_tx_ids, last, result, pos, stream, handled,
                   snapshot, pc, txn, txn_result, tasks, locks, operands, stdout>>

NextRow ==
    \/ DeserializeRow
    \/ TryFromRow

SpecRow == InitRow /\ [][NextRow]_vars

\* C24: Amount::try_from refuses exactly the values below zero, with
\* NegativeValue (zero is accepted); an amount column that is negative or has
\* more than MAX_DECIMAL_PLACES fractional digits fails to deserialize, the row
\* with it, and no Transaction comes out of it; the amount of every Transaction
\* that does come out is that of the text and is not negative.
BadAmountText(v) ==
    /\ v.kind = "decimal"
    /\ \/ v.scale > MAX_DECIMAL_PLACES
       \/ v.neg /\ v.mant > 0

Inv_C24 ==
    /\ \A d \in Decimals :
          /\ Amount_try_from(d).ok <=> ~(d.neg /\ d.mant > 0)
          /\ ~Amount_try_from(d).ok => Amount_try_from(d).err = "NegativeValue"
          /\ Amount_deserialize(DecimalText(d)).ok <=> ~BadAmountText(DecimalText(d))
    /\ (row.step # "text" /\ BadAmountText(row.text.amount)) => ~row.parsed.ok
    /\ (row.step = "transaction" /\ BadAmountText(row.text.amount)) => ~row.tx.ok
    /\ (row.step = "transaction" /\ row.tx.ok /\ HoldsFunds(row.tx.tx)) =>
          /\ row.tx.tx.amount >= 0
          /\ row.text.amount.kind = "decimal"
          /\ row.tx.tx.amount * (10 ^ row.text.amount.scale)
                = row.text.amount.mant * (10 ^ MAX_DECIMAL_PLACES)

\* A deposit row whose amount has five fractional digits, and is positive, has
\* been turned down.
Witness_C24 ==
    /\ row.step = "transaction"
    /\ row.text.type = "Deposit"
    /\ row.text.amount.kind = "decimal"
    /\ row.text.amount.scale = MAX_DECIMAL_PLACES + 1
    /\ ~row.text.amount.neg
    /\ row.text.amount.mant > 0
    /\ ~row.tx.ok

\* C26: a row becomes a Transaction exactly when it deserialized and carries
\* an amount if it is a deposit or withdrawal, none if it is a dispute, resolve
\* or chargeback; anything else is an error; the Transaction has the row's
\* kind, id and client, and a Deposit or Withdrawal starts in state Okay.
Inv_C26 ==
    row.step = "transaction" =>
        LET r == row.parsed.row
            fund == r.tx_type \in {"Deposit", "Withdrawal"}
        IN  /\ row.tx.ok <=> (row.parsed.ok /\ (fund <=> r.amount.some))
            /\ ~row.tx.ok => row.tx.tx = NoTx
            /\ row.tx.ok =>
                  /\ row.tx.tx.type = r.tx_type
                  /\ row.tx.tx.type = row.text.type
                  /\ Transaction_id(row.tx.tx) = r.tx_id
                  /\ Transaction_client_id(row.tx.tx) = r.client
                  /\ fund => /\ row.tx.tx.state = "Okay"
                             /\ row.tx.tx.amount = Units(r.amount.value)
                  /\ ~fund => ~Transaction_amount(row.tx.tx).some

\* A dispute row that deserialized with an amount has been turned down.
Witness_C26 ==
    /\ row.step = "transaction"
    /\ row.parsed.ok
    /\ row.parsed.row.tx_type = "Dispute"
    /\ row.parsed.row.amount.some
    /\ ~row.tx.ok

\* ------------------------------------------------ an Amount written and re-read
\* Any non-negative Amount (whatever made it: it may have more fractional
\* digits than a parsed one) is serialized, and the text deserialized again.
InitRoundTrip ==
    /\ InitOutput
    /\ InitLedger
    /\ InitTxn
    /\ InitTasks
    /\ stream = <<>>
    /\ operands = [op |-> "None"]
    /\ row \in [step : {"amount"},
                amount : {Amount_try_from(d).amount :
                             d \in {e \in Decimals : Amount_try_from(e).ok}},
                text : {EmptyField},
                reparsed : {Amount_deserialize(EmptyField)}]

SerializeAmount ==
    /\ row.step = "amount"
    /\ row' = [row EXCEPT !.step = "text", !.text = Amount_serialize(row.amount)]
    /\ UNCHANGED <<accounts, global_tx_ids, last, result, pos, stream, handled,
                   snapshot, pc, txn, txn_result, tasks, locks, operands, stdout>>

DeserializeAmount ==
    /\ row.step = "text"
    /\ row' = [row EXCEPT !.step = "reparsed", !.reparsed = Amount_deserialize(row.text)]
    /\ UNCHANGED <<accounts, global_tx_ids, last, result, pos, stream, handled,
                   snapshot, pc, txn, txn_result, tasks, locks, operands, stdout>>

NextRoundTrip ==
    \/ SerializeAmount
    \/ DeserializeAmount

SpecRoundTrip == InitRoundTrip /\ [][NextRoundTrip]_vars

\* C25: an Amount of at most MAX_DECIMAL_PLACES fractional digits, serialized
\* and deserialized, comes back as an Amount equal to it; the text is the
\* amount's digits at no more than MAX_DECIMAL_PLACES places.
Inv_C25 ==
    /\ row.step # "amount" => row.text.scale <= MAX_DECIMAL_PLACES
    /\ (row.step = "reparsed" /\ row.amount.scale <= MAX_DECIMAL_PLACES) =>
          /\ row.reparsed.ok
          /\ Amount_eq(row.reparsed.amount, row.amount)
          /\ Units(row.reparsed.amount) = Units(row.amount)

\* An amount with a non-zero fourth fractional digit has made the round trip.
Witness_C25 ==
    /\ row.step = "reparsed"
    /\ row.amount.scale = MAX_DECIMAL_PLACES
    /\ row.amount.mant % 10 # 0
    /\ row.reparsed.ok
    /\ Amount_eq(row.reparsed.amount, row.amount)

\* C27: a deposit or withdrawal whose id is registered is answered with
\* DuplicateGlobalTransactionId, carrying the record, also when its account is
\* locked and also when it is a withdrawal of more than is available: the
\* registry is consulted before the account.
RefusedByAccount ==
    /\ HoldsFunds(last')
    /\ last'.client_id \in DOMAIN accounts
    /\ \/ Acct(last'.client_id).locked
       \/ /\ last'.type = "Withdrawal"
          /\ last'.amount > Acct(last'.client_id).available

Inv_C27 ==
    [][(pos' # pos /\ RefusedByAccount /\ last'.id \in global_tx_ids) =>
          /\ result' = TxErr("DuplicateGlobalTransactionId", last')
          /\ accounts' = accounts
          /\ global_tx_ids' = global_tx_ids]_vars

\* A withdrawal with a registered id, of more than is available, on a locked
\* account, was answered duplicate-id.
Witness_C27 ==
    /\ result.kind = "DuplicateGlobalTransactionId"
    /\ last.type = "Withdrawal"
    /\ last.client_id \in DOMAIN accounts
    /\ Acct(last.client_id).locked
    /\ last.amount > Acct(last.client_id).available

\* C28: in every reachable state the held balance of each account is the sum
\* of the amounts of the transactions of its history that are Disputed.
RECURSIVE SumAmounts(_, _)
SumAmounts(txs, ids) ==
    IF ids = {} THEN 0
    ELSE LET id == CHOOSE i \in ids : TRUE
         IN  txs[id].amount + SumAmounts(txs, ids \ {id})

DisputedIds(c) == {id \in DOMAIN Hist(c) : Hist(c)[id].state = "Disputed"}

Cex_C28 ==
    \A c \in DOMAIN accounts : Acct(c).held = SumAmounts(Hist(c), DisputedIds(c))

\* C29: available + held of an account changes only by a successful deposit
\* (plus its amount), a successful withdrawal (minus its amount) and a
\* successful chargeback (minus the amount of the transaction charged back);
\* a failing record, a dispute and a resolve leave it as it was.  From the
\* empty ledger this is: available + held = deposits - withdrawals - chargebacks.
Funds(accts, c) ==
    IF c \in DOMAIN accts THEN accts[c].account.available + accts[c].account.held ELSE 0

ExpectedChange(c) ==
    IF result'.kind # "Ok" \/ Transaction_client_id(last') # c THEN 0
    ELSE CASE last'.type = "Deposit"    -> last'.amount
           [] last'.type = "Withdrawal" -> 0 - last'.amount
           [] last'.type = "Chargeback" -> 0 - Hist(c)[last'.id].amount
           [] OTHER                     -> 0

Cex_C29 ==
    [][pos' # pos =>
          \A c \in Clients : Funds(accounts', c) = Funds(accounts, c) + ExpectedChange(c)]_vars

\* C30: every entry of an account's history is a Deposit or Withdrawal stored
\* under its own id, of the account's client, registered, and Okay or Disputed;
\* no id is in the histories of two accounts.
Inv_C30 ==
    /\ \A c \in DOMAIN accounts : \A id \in DOMAIN Hist(c) :
          LET t == Hist(c)[id]
          IN  /\ HoldsFunds(t)
              /\ Transaction_id(t) = id
              /\ Transaction_client_id(t) = c
              /\ Acct(c).client_id = c
              /\ id \in global_tx_ids
              /\ t.state \in {"Okay", "Disputed"}
    /\ \A c, d \in DOMAIN accounts :
          c # d => DOMAIN Hist(c) \cap DOMAIN Hist(d) = {}

\* Two accounts with a transaction each, one of them Disputed, after a
\* chargeback was refused.
Witness_C30 ==
    /\ \E c, d \in DOMAIN accounts :
          /\ c # d
          /\ DOMAIN Hist(c) # {}
          /\ \E id \in DOMAIN Hist(d) : Hist(d)[id].state = "Disputed"
    /\ last.type = "Chargeback"
    /\ result.kind # "Ok"

\* ---------------------------------------------------- claims C31 to C34

\* C31: no step removes an id from the global registry; the id of a
\* transaction that a chargeback removed from its history stays registered,
\* and a deposit or withdrawal with that id, for whichever client and amount,
\* is rejected as a duplicate and changes nothing.
Inv_C31 ==
    /\ [][global_tx_ids \subseteq global_tx_ids']_vars
    /\ [](\A tx \in FundRecords :
             tx.id \in RemovedIds =>
                 LET r == handle_transaction(accounts, global_tx_ids, tx)
                 IN  /\ r.result = TxErr("DuplicateGlobalTransactionId", tx)
                     /\ r.global_tx_ids = global_tx_ids
                     /\ \A c \in DOMAIN accounts : r.accounts[c] = accounts[c])

\* After a chargeback removed a transaction, another client's deposit reusing
\* its id was rejected as a duplicate.
Witness_C31 ==
    /\ result.kind = "DuplicateGlobalTransactionId"
    /\ last.type = "Deposit"
    /\ last.id \in RemovedIds
    /\ \E c \in DOMAIN accounts : c # last.client_id /\ Acct(c).locked

\* ------------------------------ callers of handle_transaction and get_accounts
\* NumCallers callers share the processor: each either applies one record or
\* asks for the snapshot (get_accounts locks self.accounts only).

NumCallers == 3

LockingRecords ==
    {Transaction_deposit(2, 1, 1), Transaction_withdrawal(2, MaxAmount, 1),
     Transaction_dispute(1, 1), Transaction_chargeback(1, 1)}

ApplyCall(tx) == [pc |-> "start", tx |-> tx, view |-> NoView, result |-> NoResult]

SnapshotCall == [pc |-> "snapshot_start", tx |-> NoTx, view |-> NoView, result |-> NoResult]

InitLocking ==
    /\ InitOutput
    /\ stream \in {SubSeq(PreludeStream, 1, n) : n \in 0..Len(PreludeStream)}
    /\ pos = Len(stream)
    /\ accounts = LedgerAfter(pos).accounts
    /\ global_tx_ids = LedgerAfter(pos).global_tx_ids
    /\ last = NoTx
    /\ result = NoResult
    /\ handled = <<>>
    /\ snapshot = {}
    /\ pc = "run"
    /\ InitTxn
    /\ tasks \in [1..NumCallers ->
                    {ApplyCall(tx) : tx \in LockingRecords} \cup {SnapshotCall}]
    /\ locks = NoLocks
    /\ InitPure

\* get_accounts: let accounts = self.accounts.lock().await;
GetAccountsLock ==
    \E t \in DOMAIN tasks :
        /\ tasks[t].pc = "snapshot_start"
        /\ locks.accounts = 0
        /\ locks' = [locks EXCEPT !.accounts = t]
        /\ tasks' = [tasks EXCEPT ![t].pc = "snapshot_locked"]
        /\ UNCHANGED <<accounts, global_tx_ids, last, result, pos, stream, handled,
                       snapshot, pc, txn, txn_result, operands, row, stdout>>

\* get_accounts: the accounts are collected and returned, the guard is dropped.
GetAccountsReturn ==
    \E t \in DOMAIN tasks :
        /\ tasks[t].pc = "snapshot_locked"
        /\ snapshot' = get_accounts(accounts)
        /\ locks' = [k \in DOMAIN locks |-> IF locks[k] = t THEN 0 ELSE locks[k]]
        /\ tasks' = [tasks EXCEPT ![t].pc = "done"]
        /\ UNCHANGED <<accounts, global_tx_ids, last, result, pos, stream, handled,
                       pc, txn, txn_result, operands, row, stdout>>

NextLocking ==
    \/ LockAccounts
    \/ LockGlobalTxIds
    \/ ReadLedger
    \/ WriteLedger
    \/ Return
    \/ GetAccountsLock
    \/ GetAccountsReturn

\* A caller that can take its next step eventually takes a step: the runtime
\* polls every task that is ready, and a released Mutex wakes a waiter.
SpecLocking == InitLocking /\ [][NextLocking]_vars /\ WF_vars(NextLocking)

\* C32: the registry Mutex is only ever held by a caller that holds the
\* accounts Mutex, a snapshot caller holds at most the accounts Mutex, a caller
\* that has returned (with Ok or with an Err) holds nothing, and every caller
\* eventually returns, leaving both Mutexes free.
HoldsNothing(t) == locks.accounts # t /\ locks.global_tx_ids # t

LockOrder ==
    \A t \in DOMAIN tasks :
        /\ locks.global_tx_ids = t => locks.accounts = t
        /\ tasks[t].pc \in {"snapshot_start", "snapshot_locked"} => locks.global_tx_ids # t
        /\ tasks[t].pc \in {"start", "snapshot_start", "done"} => HoldsNothing(t)

AllCompleted == \A t \in DOMAIN tasks : tasks[t].pc = "done"

Inv_C32 ==
    /\ []LockOrder
    /\ <>[](AllCompleted /\ locks = NoLocks)

\* Every caller has returned: one with an Err from handle_transaction, one
\* with Ok, one with the snapshot.
Witness_C32 ==
    /\ AllCompleted
    /\ locks = NoLocks
    /\ \E t \in DOMAIN tasks : tasks[t].result.kind \notin {"Ok", "None"}
    /\ \E t \in DOMAIN tasks : tasks[t].result.kind = "Ok"
    /\ \E t \in DOMAIN tasks : tasks[t] = [SnapshotCall EXCEPT !.pc = "done"]
    /\ snapshot # {}

\* C33: a record that is rejected still leaves its client with an account: if
\* the client had none, the step inserts the zero-balance, unlocked account
\* and nothing else changes; a finished run whose records for a client were
\* all rejected has exactly that account for the client in its snapshot.
RecordsOf(c) == {k \in 1..Len(stream) : stream[k].ok /\ Transaction_client_id(stream[k].tx) = c}

CreatedThoughRejected ==
    (pos' = pos + 1 /\ stream[pos'].ok /\ result'.kind # "Ok") =>
        LET c == Transaction_client_id(stream[pos'].tx)
        IN  /\ c \in DOMAIN accounts'
            /\ c \notin DOMAIN accounts =>
                  /\ accounts' = MapInsert(accounts, c, ZeroEntry(c))
                  /\ global_tx_ids' = global_tx_ids

Inv_C33 ==
    /\ [][CreatedThoughRejected]_vars
    /\ [](pc = "done" =>
             \A c \in Clients :
                (RecordsOf(c) # {} /\ RecordsOf(c) \subseteq FailedRecords(Len(stream))) =>
                    /\ ZeroEntry(c).account \in snapshot
                    /\ \A a \in snapshot : a.client_id = c => a = ZeroEntry(c).account)

\* A finished run in which client 2's first and only record, a withdrawal,
\* was rejected for insufficient funds, and client 2 is in the snapshot.
Witness_C33 ==
    /\ pc = "done"
    /\ ZeroEntry(2).account \in snapshot
    /\ \E i \in 1..Len(handled) :
          /\ handled[i].kind = "InsufficientFunds"
          /\ handled[i].tx.type = "Withdrawal"
          /\ handled[i].tx.client_id = 2

\* ------------------------------------------------------------------- main
\* main runs process_transactions with error_handler and, once it has
\* returned, writes the accounts to standard output.

\* error_handler: what it does with the error it is given.
\* Faulty variant: an illegal state change is logged like the other refusals.
error_handler_lenient(e) ==
    IF e.tag = "TransactionParsingError" THEN "eprintln"
    ELSE CASE e.kind = "TransactionNotFound"          -> "error"
           [] e.kind = "DuplicateGlobalTransactionId" -> "error"
           [] e.kind = "InvalidTransactionId"         -> "panic"
           [] e.kind = "InsufficientFunds"            -> "error"
           [] e.kind = "IllegalStateChange"           -> "error"
           [] e.kind = "AccountFrozen"                -> "error"
           [] e.kind = "InternalError"                -> "panic"

error_handler(e) ==
    IF e.tag = "TransactionParsingError" THEN "eprintln"
    ELSE CASE e.kind = "TransactionNotFound"          -> "error"
           [] e.kind = "DuplicateGlobalTransactionId" -> "error"
           [] e.kind = "InvalidTransactionId"         -> "panic"
           [] e.kind = "InsufficientFunds"            -> "error"
           [] e.kind = "IllegalStateChange"           -> "panic"
           [] e.kind = "AccountFrozen"                -> "error"
           [] e.kind = "InternalError"                -> "panic"

\* write_accounts: every account is serialized, then the writer is flushed.
write_accounts(accts) == [written |-> TRUE, rows |-> accts]

\* A transactions file whose records are refused in several ways before one
\* of them is an illegal state change.
MainStream ==
    << ParseError,
       ParsedOk(Transaction_withdrawal(5, One, 1)),
       ParsedOk(Transaction_deposit(1, One, 1)),
       ParsedOk(Transaction_deposit(1, One, 2)),
       ParsedOk(Transaction_deposit(2, One, 1)),
       ParsedOk(Transaction_resolve(3, 1)),
       ParsedOk(Transaction_dispute(1, 1)),
       ParsedOk(Transaction_dispute(1, 1)),
       ParsedOk(Transaction_deposit(3, One, 1)) >>

MainInputs ==
    StreamInputs \cup {SubSeq(MainStream, 1, n) : n \in 0..Len(MainStream)}

InitMain ==
    /\ InitOutput
    /\ InitLedger
    /\ InitTxn
    /\ InitTasks
    /\ InitPure
    /\ stream \in MainInputs

\* One iteration of the loop on a parsed record, error_handler included.
MainApply ==
    /\ pc = "run"
    /\ pos < Len(stream)
    /\ stream[pos + 1].ok
    /\ Apply(stream[pos + 1].tx)
    /\ LET e == [tag |-> "TransactionProcessingError",
                 kind |-> result'.kind, tx |-> result'.tx]
       IN  IF result'.kind = "Ok"
           THEN /\ handled' = handled
                /\ pc' = "run"
           ELSE /\ handled' = Append(handled, e)
                /\ pc' = IF error_handler(e) = "panic" THEN "panicked" ELSE "run"
    /\ pos' = pos + 1
    /\ UNCHANGED <<stream, snapshot, txn, txn_result, tasks, locks, operands, row, stdout>>

\* One iteration of the loop on a record that failed to parse.
MainParseError ==
    /\ pc = "run"
    /\ pos < Len(stream)
    /\ ~stream[pos + 1].ok
    /\ LET e == [tag |-> "TransactionParsingError", kind |-> "CsvError", tx |-> NoTx]
       IN  /\ handled' = Append(handled, e)
           /\ pc' = IF error_handler(e) = "panic" THEN "panicked" ELSE "run"
    /\ pos' = pos + 1
    /\ UNCHANGED <<accounts, global_tx_ids, last, result, stream, snapshot,
                   txn, txn_result, tasks, locks, operands, row, stdout>>

\* process_transactions returns Ok(get_accounts()), which main unwraps.
MainReturn ==
    /\ pc = "run"
    /\ pos = Len(stream)
    /\ snapshot' = get_accounts(accounts)
    /\ pc' = "done"
    /\ UNCHANGED <<accounts, global_tx_ids, last, result, pos, stream, handled,
                   txn, txn_result, tasks, locks, operands, row, stdout>>

\* write_accounts(output_accounts, stdout).unwrap()
MainWriteAccounts ==
    /\ pc = "done"
    /\ stdout' = write_accounts(snapshot)
    /\ pc' = "written"
    /\ UNCHANGED <<accounts, global_tx_ids, last, result, pos, stream, handled,
                   snapshot, txn, txn_result, tasks, locks, operands, row>>

NextMain ==
    \/ MainApply
    \/ MainParseError
    \/ MainReturn
    \/ MainWriteAccounts

\* main is the only activity of the process: each step that can run does.
SpecMain == InitMain /\ [][NextMain]_vars /\ WF_vars(NextMain)

\* C34: error_handler logs transaction-not-found, duplicate-id,
\* insufficient-funds, account-frozen and parsing errors and panics on
\* illegal-state-change, invalid-transaction-reference and internal-error. A
\* record refused in one of the logged ways is reported and the loop goes on;
\* a record refused in one of the halting ways ends the run at once, nothing
\* having been written. A file without halting record always ends with the
\* accounts of the whole file written; a file with one always ends halted.
LoggedKinds ==
    {"TransactionNotFound", "DuplicateGlobalTransactionId", "InsufficientFunds",
     "AccountFrozen"}

HaltingKinds == {"IllegalStateChange", "InvalidTransactionId", "InternalError"}

HandlerVerdicts ==
    /\ \A k \in LoggedKinds :
          error_handler([tag |-> "TransactionProcessingError", kind |-> k, tx |-> last])
              = "error"
    /\ \A k \in HaltingKinds :
          error_handler([tag |-> "TransactionProcessingError", kind |-> k, tx |-> last])
              = "panic"
    /\ error_handler([tag |-> "TransactionParsingError", kind |-> "CsvError", tx |-> NoTx])
          = "eprintln"

HandlerStep ==
    /\ pc = "panicked" => pc' = "panicked" /\ stdout' = stdout
    /\ pos' = pos + 1 =>
          /\ (~stream[pos'].ok \/ result'.kind \in LoggedKinds) =>
                /\ pc' = "run"
                /\ Len(handled') = Len(handled) + 1
                /\ stdout' = stdout
          /\ (stream[pos'].ok /\ result'.kind \in HaltingKinds) =>
                /\ pc' = "panicked"
                /\ stdout' = NoOutput
          /\ (stream[pos'].ok /\ result'.kind = "Ok") => pc' = "run"

HaltingRecords ==
    {k \in FailedRecords(Len(stream)) : LedgerAfter(k).result.kind \in HaltingKinds}

Inv_C34 ==
    /\ []HandlerVerdicts
    /\ [][HandlerStep]_vars
    /\ [](pc = "panicked" => stdout = NoOutput /\ snapshot = {})
    /\ [](pc = "written" =>
             /\ HaltingRecords = {}
             /\ pos = Len(stream)
             /\ stdout = [written |-> TRUE,
                          rows |-> get_accounts(LedgerAfter(Len(stream)).accounts)])
    /\ (HaltingRecords = {}) ~> (pc = "written")
    /\ (HaltingRecords # {}) ~> (pc = "panicked")

\* A run that logged a parsing error, insufficient funds, a duplicate id and
\* an unknown transaction, went on each time, and then halted on an illegal
\* state change with a record still unread and nothing written.
Witness_C34 ==
    /\ pc = "panicked"
    /\ stdout = NoOutput
    /\ pos < Len(stream)
    /\ Len(handled) = 5
    /\ handled[1].tag = "TransactionParsingError"
    /\ handled[2].kind = "InsufficientFunds"
    /\ handled[3].kind = "DuplicateGlobalTransactionId"
    /\ handled[4].kind = "TransactionNotFound"
    /\ handled[5].kind = "IllegalStateChange"

====
